---- MODULE Spec2Model ----
(***************************************************************************)
(* The chicago-crime pipeline as a state machine.                          *)
(*                                                                         *)
(* Fact side: the crime_records table, the remote dataset, and two         *)
(* orchestrator processes that each run run_daily.main or                  *)
(* run_backfill.main, a database step at a time.                           *)
(* Dimension side: the dimension tables, the session of run_dimensions.main*)
(* and the remote reference datasets.                                      *)
(*                                                                         *)
(* Timestamps are whole seconds counted from 2001-01-01 00:00:00.          *)
(* A text value is a sequence of one-character strings.                    *)
(***************************************************************************)
EXTENDS Integers, Sequences, FiniteSets, Bags, TLC

VARIABLES
    crime_records,   \* committed rows of the fact table (models.CrimeRecord), a bag
    source,          \* rows of the remote crimes dataset
    run,             \* per process: the locals of the orchestrator it runs
    dim_tables,      \* committed rows of each dimension table, a bag per table
    session_tables,  \* the dimension tables as the open session sees them
    dim_source,      \* rows of each remote reference dataset, in fetch order
    dim              \* run_dimensions.main: its position, outcome and last frame

factVars == <<crime_records, source, run>>
dimVars == <<dim_tables, session_tables, dim_source, dim>>
vars == <<factVars, dimVars>>

\* ------------------------------------------------------------------ bounds
MaxId == 2            \* identifiers of the remote dataset are 1..MaxId
MaxDate == 1          \* incident timestamps are 0..MaxDate
DailyLimit == 1       \* row cap of the daily fetch, scaled down from 500_000
MaxBatch == 2         \* longest batch handed directly to load_data_bulk
MaxDimRows == 2       \* most rows a reference dataset returns
MaxKeyLen == 5        \* longest district or beat code, in characters

\* --------------------------------------------------------------- constants
NULL == -1            \* None / NaN / NaT / SQL NULL
BAD == -2             \* a raw value that does not parse
ABSENT == -3          \* the fetched row carries no such key
HistoricalStart == 0  \* datetime(2001, 1, 1)
OneSecond == 1        \* timedelta(seconds=1)
BackfillLimit == DailyLimit + 1  \* row cap of the backfill fetch (2_000_000 > 500_000)

Procs == {1, 2}
Runner == CHOOSE p \in Procs : \A q \in Procs : p <= q   \* the process of a spec with one
Ids == 1..MaxId
Dates == HistoricalStart..MaxDate
Latitudes == {0}
SourceRows == [id : Ids, date : Dates, latitude : Latitudes \cup {ABSENT}]

Range(s) == {s[i] : i \in DOMAIN s}
Min2(a, b) == IF a <= b THEN a ELSE b
IdsOf(rows) == {r.id : r \in BagToSet(rows)}

\* -------------------------------------------------------- api_client.py
\* where = "date >= '<start_date>'"
WhereDate(src, start_date) == {r \in src : r.date /= BAD /\ r.date /= NULL /\ r.date >= start_date}

\* order = "date ASC", limit = limit.  Rows with equal dates come in any order,
\* so the call has a set of possible results.
fetch_crime_data(src, start_date, limit) ==
    LET matching == WhereDate(src, start_date)
        n == Min2(limit, Cardinality(matching))
    IN  {df \in [1..n -> matching] :
            /\ \A i, j \in 1..n : i < j => df[i] /= df[j] /\ df[i].date <= df[j].date
            /\ \A r \in matching \ Range(df) : \A i \in 1..n : df[i].date <= r.date}

\* ----------------------------------------------------------------- etl.py
\* pd.to_numeric(errors='coerce') / pd.to_datetime(errors='coerce')
to_numeric(v) == IF v >= 0 THEN v ELSE NULL
to_datetime(v) == IF v >= 0 THEN v ELSE NULL

\* The columns clean_data reads with x['<column>'].  The frame built from the
\* fetched rows has a column for every key some row carries; a row without
\* the key holds NaN there.
FactCols == {"id", "date", "latitude"}
MissingColumns(df) == {c \in FactCols : \A i \in DOMAIN df : df[i][c] = ABSENT}

\* Faulty variant: rows whose identifier does not parse are dropped
clean_data_dropna(df) ==
    LET kept == SelectSeq(df, LAMBDA r : to_numeric(r.id) /= NULL)
    IN  [i \in 1..Len(kept) |-> [id |-> to_numeric(kept[i].id),
                                 date |-> to_datetime(kept[i].date),
                                 latitude |-> to_numeric(kept[i].latitude)]]

\* The frame clean_data returns when every column it reads is there.
clean_data(df) ==
    [i \in 1..Len(df) |-> [id |-> to_numeric(df[i].id),
                           date |-> to_datetime(df[i].date),
                           latitude |-> to_numeric(df[i].latitude)]]

\* ------------------------------------------------------------- the store
\* models.py: id is the primary key, date is not nullable.
NotNullViolation(r) == r.date = NULL
\* Faulty variant: the table has no primary key constraint
NoPrimaryKey(r, visible) == FALSE
PrimaryKeyViolation(r, visible) == r.id /= NULL /\ r.id \in IdsOf(visible)

\* A row without an identifier: the engine either rejects it or gives it the
\* next row id (the column has autoincrement off, the outcome is the engine's).
AssignedId(visible) ==
    LET used == IdsOf(visible) \cup {0}
    IN  1 + CHOOSE m \in used : \A k \in used : k <= m
NullIdOutcomes == {"reject", "assign"}

\* Faulty variant: the commit replaces the table by the rows of the session
commit_replace(table, pending) == pending
\* session.commit() / session.rollback(): the committed table afterwards.
commit(table, pending) == table (+) pending
\* Faulty variant: the except branch commits what the session holds
rollback_partial(table, pending) == table (+) pending
rollback(table, pending) == table

\* Faulty variant: an empty table resolves to the historical start
get_last_crime_date_or_start(table) ==
    LET ds == {r.date : r \in {x \in BagToSet(table) : x.date /= NULL}}
    IN  IF ds = {} THEN HistoricalStart ELSE CHOOSE m \in ds : \A d \in ds : d <= m

\* select(func.max(CrimeRecord.date)): NULLs are skipped, no row gives None.
get_last_crime_date(table) ==
    LET ds == {r.date : r \in {x \in BagToSet(table) : x.date /= NULL}}
    IN  IF ds = {} THEN NULL ELSE CHOOSE m \in ds : \A d \in ds : d <= m

\* Faulty variant: the rows counted are those whose id is NULL
SubBag_null(table) == [r \in {x \in BagToSet(table) : x.id = NULL} |-> table[r]]
\* select(func.count(CrimeRecord.id)) == 0: count(id) counts the rows whose id
\* is not NULL
SubBag_notnull(table) == [r \in {x \in BagToSet(table) : x.id /= NULL} |-> table[r]]

\* Faulty variant: count >= 0
is_database_empty_always(table) == BagCardinality(SubBag_notnull(table)) >= 0
is_database_empty(table) == BagCardinality(SubBag_notnull(table)) = 0

\* Faulty variant: no offset
start_at(last_date) == last_date
\* start_date = last_date + timedelta(seconds=1)
start_after(last_date) == last_date + OneSecond

\* Faulty variant: no frame counts as empty
df_empty_never(df) == FALSE
\* DataFrame.empty
df_empty(df) == Len(df) = 0

\* ------------------------------------------------------------ process state
NoFetch == [start_date |-> NULL, limit |-> 0]
Idle == [mode |-> "none", pc |-> "idle", last_date |-> NULL, start_date |-> NULL,
         fetch |-> NoFetch, nfetch |-> 0, raw_df |-> <<>>, clean_df |-> <<>>,
         idx |-> 0, pending |-> EmptyBag, wrote |-> FALSE, err |-> "none"]

Finished(p) == run[p].pc \in {"idle", "done", "failed"}

\* main returns or raises: its frames go out of scope, the outcome stays.
Return(p) == [run EXCEPT ![p].pc = "done", ![p].raw_df = <<>>, ![p].clean_df = <<>>,
                         ![p].pending = EmptyBag]
Raise(p, e) == [Return(p) EXCEPT ![p].pc = "failed", ![p].err = e]

\* The scheduler starts run_daily.main or run_backfill.main in a free process.
Start(p, mode) ==
    /\ Finished(p)
    /\ run' = [run EXCEPT ![p] = [Idle EXCEPT !.mode = mode, !.pc = "checkpoint"]]
    /\ UNCHANGED <<crime_records, source, dimVars>>

\* The remote dataset gains a record.
Publish(r) ==
    /\ r.id \notin {x.id : x \in source}
    /\ source' = source \cup {r}
    /\ UNCHANGED <<crime_records, run, dimVars>>

\* run_daily.main, STEP 1
DailyCheckpoint(p) ==
    /\ run[p].mode = "daily" /\ run[p].pc = "checkpoint"
    /\ LET last_date == get_last_crime_date(crime_records)
       IN  IF last_date /= NULL
           THEN run' = [run EXCEPT ![p].last_date = last_date,
                                   ![p].start_date = start_after(last_date),
                                   ![p].pc = "fetch"]
           ELSE run' = Raise(p, "ValueError")
    /\ UNCHANGED <<crime_records, source, dimVars>>

\* run_backfill.main, steps 1-3
BackfillCheck(p) ==
    /\ run[p].mode = "backfill" /\ run[p].pc = "checkpoint"
    /\ IF ~ is_database_empty(crime_records)
       THEN run' = Raise(p, "RuntimeError")
       ELSE run' = [run EXCEPT ![p].start_date = HistoricalStart, ![p].pc = "fetch"]
    /\ UNCHANGED <<crime_records, source, dimVars>>

\* Faulty variant: the backfill fetches with the daily cap
FetchLimit_daily(mode) == DailyLimit
FetchLimit(mode) == IF mode = "daily" THEN DailyLimit ELSE BackfillLimit

\* fetch_crime_data(start_date=start_date, limit=...) returns a frame
Fetch(p) ==
    /\ run[p].pc = "fetch"
    /\ LET lim == FetchLimit(run[p].mode)
       IN  \E df \in fetch_crime_data(source, run[p].start_date, lim) :
             run' = [run EXCEPT ![p].fetch = [start_date |-> run[p].start_date, limit |-> lim],
                                ![p].nfetch = @ + 1,
                                ![p].raw_df = df,
                                ![p].pc = IF df_empty(df) THEN "done" ELSE "clean"]
    /\ UNCHANGED <<crime_records, source, dimVars>>

\* fetch_crime_data raises (transport, auth, timeout)
FetchError(p) ==
    /\ run[p].pc = "fetch"
    /\ run' = [Raise(p, "TransportError") EXCEPT
                  ![p].fetch = [start_date |-> run[p].start_date,
                                limit |-> FetchLimit(run[p].mode)],
                  ![p].nfetch = @ + 1]
    /\ UNCHANGED <<crime_records, source, dimVars>>

\* clean_df = clean_data(raw_df); if not clean_df.empty: load_data_bulk(clean_df)
Clean(p) ==
    /\ run[p].pc = "clean"
    /\ MissingColumns(run[p].raw_df) = {}
    /\ LET clean_df == clean_data(run[p].raw_df)
       IN  run' = [run EXCEPT ![p].clean_df = clean_df,
                              ![p].pc = IF ~ df_empty(clean_df) THEN "load" ELSE "done"]
    /\ UNCHANGED <<crime_records, source, dimVars>>

\* clean_data raises: x['<column>'] is a KeyError when no fetched row carries
\* the column.  run_daily.main logs and re-raises it; run_backfill.main logs it
\* and goes on to read clean_df, which was never bound.
CleanError(p) ==
    /\ run[p].pc = "clean"
    /\ MissingColumns(run[p].raw_df) /= {}
    /\ run' = Raise(p, IF run[p].mode = "backfill" THEN "UnboundLocalError" ELSE "KeyError")
    /\ UNCHANGED <<crime_records, source, dimVars>>

\* load_data_bulk: the empty check, then the session opens
LoadBegin(p) ==
    /\ run[p].pc = "load"
    /\ run' = [run EXCEPT ![p].pc = IF df_empty(run[p].clean_df) THEN "done" ELSE "insert",
                          ![p].idx = 0, ![p].pending = EmptyBag]
    /\ UNCHANGED <<crime_records, source, dimVars>>

\* Rows another open transaction has written and not yet committed: the engine
\* makes a writer of the same key wait for that transaction to end.
OthersPending(p) == BagUnion({run[q].pending : q \in Procs \ {p}})

\* session.execute(insert(CrimeRecord), records): the next row of the batch
LoadInsert(p) ==
    /\ run[p].pc = "insert"
    /\ run[p].idx < Len(run[p].clean_df)
    /\ LET r == run[p].clean_df[run[p].idx + 1]
           visible == crime_records (+) run[p].pending
       IN  /\ r.id \notin IdsOf(OthersPending(p))
           /\ \E o \in NullIdOutcomes :
                IF \/ NotNullViolation(r)
                   \/ PrimaryKeyViolation(r, visible)
                   \/ (r.id = NULL /\ o = "reject")
                THEN /\ crime_records' = rollback(crime_records, run[p].pending)
                     /\ run' = [Raise(p, "IntegrityError") EXCEPT ![p].wrote = TRUE]
                ELSE /\ crime_records' = crime_records
                     /\ run' = [run EXCEPT
                           ![p].pending = @ (+) SetToBag(
                               {IF r.id = NULL
                                THEN [r EXCEPT !.id = AssignedId(visible (+) OthersPending(p))]
                                ELSE r}),
                           ![p].idx = @ + 1, ![p].wrote = TRUE]
    /\ UNCHANGED <<source, dimVars>>

\* Any other SQLAlchemyError while the session is open (lock timeout, deadlock
\* victim, lost connection): except SQLAlchemyError -> rollback, raise
LoadDbError(p) ==
    /\ run[p].pc = "insert"
    /\ crime_records' = rollback(crime_records, run[p].pending)
    /\ run' = Raise(p, "OperationalError")
    /\ UNCHANGED <<source, dimVars>>

\* session.commit()
LoadCommit(p) ==
    /\ run[p].pc = "insert"
    /\ run[p].idx = Len(run[p].clean_df)
    /\ crime_records' = commit(crime_records, run[p].pending)
    /\ run' = Return(p)
    /\ UNCHANGED <<source, dimVars>>

\* ------------------------------------------------------ run_dimensions.py
\* The last three models of DIMENSION_CONFIG, in its order.  CommunityArea and
\* IUCR go through the same code path as Ward (no key normalisation).
Tables == <<"Ward", "Beat", "District">>
NumTables == Len(Tables)
tablename(model) ==
    CASE model = "District" -> "dim_districts"
      [] model = "Beat" -> "dim_beats"
      [] OTHER -> "dim_wards"

\* Fetched rows: key texts "1" and "1.0", two descriptions, a column the
\* models do not have.
RawRows == {[key |-> <<"1">>, val |-> "a", the_geom |-> "g"],
            [key |-> <<"1">>, val |-> "b", the_geom |-> "g"],
            [key |-> <<"1", ".", "0">>, val |-> "a", the_geom |-> "g"]}
Frames == UNION {[1..n -> RawRows] : n \in 0..MaxDimRows}

\* df.rename(columns=mapping); df = df[target_cols]
rename_and_filter(results) ==
    [i \in 1..Len(results) |-> [pk |-> results[i].key, val |-> results[i].val]]

\* Faulty variant: keep='last'
drop_duplicates_last(df) ==
    LET keep == {i \in 1..Len(df) : \A j \in 1..Len(df) : j > i => df[j].pk /= df[i].pk}
        pick[n \in 0..Len(df)] ==
            IF n = 0 THEN <<>>
            ELSE IF n \in keep THEN Append(pick[n - 1], df[n]) ELSE pick[n - 1]
    IN  pick[Len(df)]

\* df.drop_duplicates(subset=[pk_column], keep='first'): one pass in fetch order
drop_duplicates(df) ==
    LET pick[n \in 0..Len(df)] ==
            IF n = 0 THEN <<>>
            ELSE IF \E j \in 1..(n - 1) : df[j].pk = df[n].pk
                 THEN pick[n - 1]
                 ELSE Append(pick[n - 1], df[n])
    IN  pick[Len(df)]

ZfillWidth == 3

\* Faulty variant: the text is not split
split_dot_none(text) == text
\* .str.split('.').str[0]
split_dot_first(text) ==
    LET dots == {i \in 1..Len(text) : text[i] = "."}
    IN  IF dots = {} THEN text
        ELSE SubSeq(text, 1, (CHOOSE i \in dots : \A j \in dots : i <= j) - 1)

\* .str.zfill(width): zeros on the left, after a leading sign
RECURSIVE zfill(_, _)
zfill(text, width) ==
    IF Len(text) >= width THEN text
    ELSE IF text /= <<>> /\ text[1] \in {"+", "-"}
         THEN <<text[1]>> \o zfill(Tail(text), width - 1)
         ELSE zfill(<<"0">> \o text, width)

standardize_key(table_name, key) ==
    CASE table_name = "dim_districts" -> zfill(split_dot_first(key), ZfillWidth)
      [] table_name = "dim_beats" -> split_dot_first(key)
      [] OTHER -> key

standardize(table_name, df) ==
    [i \in 1..Len(df) |-> [df[i] EXCEPT !.pk = standardize_key(table_name, df[i].pk)]]

SeqToBag(records) ==
    [r \in Range(records) |-> Cardinality({i \in DOMAIN records : records[i] = r})]

\* The primary key of a dimension model.  The table is empty when the insert
\* runs (DELETE FROM in the same transaction), so keys collide only inside
\* the batch.
DimKeyViolation(records) ==
    \E i, j \in DOMAIN records : i < j /\ records[i].pk = records[j].pk

\* Faulty variant: the DELETE is left out
insert_only(existing, records) == existing (+) SeqToBag(records)
\* session.execute(text("DELETE FROM ...")); session.bulk_insert_mappings(model, records)
delete_and_insert(existing, records) == SeqToBag(records)

\* Faulty variant: the except branch commits the session
dim_rollback_commit(committed, session) == session
\* session.rollback(): the committed tables afterwards
dim_rollback(committed, session) == committed
\* session.commit()
dim_commit(committed, session) == session

EmptyFrame == [fetched |-> <<>>, deduped |-> <<>>, records |-> <<>>]
DimIdle == [status |-> "idle", pos |-> 0, err |-> "none", touched |-> {},
            prev_ok |-> FALSE, before |-> [i \in 1..NumTables |-> EmptyBag],
            frame |-> EmptyFrame]

\* main: init_db(), with Session(engine) as session
DimStart ==
    /\ dim.status /= "running"
    /\ dim' = [DimIdle EXCEPT !.status = "running", !.pos = 1,
                              !.prev_ok = (dim.status = "success"),
                              !.before = dim_tables]
    /\ session_tables' = dim_tables
    /\ UNCHANGED <<dim_tables, dim_source, factVars>>

\* main: except Exception -> session.rollback(), sys.exit(1)
DimFail(e, frame) ==
    /\ dim_tables' = dim_rollback(dim_tables, session_tables)
    /\ session_tables' = dim_tables'
    /\ dim' = [dim EXCEPT !.status = "failed", !.err = e, !.frame = frame]

\* fetch_and_load_dimension for the next model of DIMENSION_CONFIG, the fetch
\* returning results
fetch_and_load_dimension(results) ==
    /\ dim.status = "running" /\ dim.pos <= NumTables
    /\ LET t == dim.pos
           table_name == tablename(Tables[t])
           df == rename_and_filter(results)
           deduped == drop_duplicates(df)
           records == standardize(table_name, deduped)
           frame == [fetched |-> df, deduped |-> deduped, records |-> records]
       IN  IF Len(results) = 0
           THEN /\ dim' = [dim EXCEPT !.pos = @ + 1, !.frame = EmptyFrame]
                /\ UNCHANGED <<dim_tables, session_tables>>
           ELSE IF DimKeyViolation(records)
           THEN DimFail("IntegrityError", frame)
           ELSE /\ session_tables' =
                      [session_tables EXCEPT ![t] = delete_and_insert(@, records)]
                /\ dim' = [dim EXCEPT !.pos = @ + 1, !.frame = frame,
                                      !.touched = @ \cup {t}]
                /\ UNCHANGED dim_tables
    /\ UNCHANGED <<dim_source, factVars>>

\* client.get raises
DimFetchError ==
    /\ dim.status = "running" /\ dim.pos <= NumTables
    /\ DimFail("TransportError", EmptyFrame)
    /\ UNCHANGED <<dim_source, factVars>>

\* the remote dataset answers with its rows
DimProcessRemote == fetch_and_load_dimension(dim_source[dim.pos])

\* main: session.commit() after the last model
DimCommit ==
    /\ dim.status = "running" /\ dim.pos = NumTables + 1
    /\ dim_tables' = dim_commit(dim_tables, session_tables)
    /\ session_tables' = session_tables
    /\ dim' = [dim EXCEPT !.status = "success"]
    /\ UNCHANGED <<dim_source, factVars>>

DimInit ==
    /\ dim_tables = [i \in 1..NumTables |-> EmptyBag]
    /\ session_tables = dim_tables
    /\ dim_source = [i \in 1..NumTables |-> <<>>]
    /\ dim = DimIdle

FactInit ==
    /\ crime_records = EmptyBag
    /\ source = {}
    /\ run = [p \in Procs |-> Idle]

\* ------------------------------------------------- the orchestrators' runs
Init == FactInit /\ DimInit

Next ==
    \/ \E p \in Procs, mode \in {"daily", "backfill"} : Start(p, mode)
    \/ \E r \in SourceRows : Publish(r)
    \/ \E p \in Procs : DailyCheckpoint(p)
    \/ \E p \in Procs : BackfillCheck(p)
    \/ \E p \in Procs : Fetch(p)
    \/ \E p \in Procs : FetchError(p)
    \/ \E p \in Procs : Clean(p)
    \/ \E p \in Procs : CleanError(p)
    \/ \E p \in Procs : LoadBegin(p)
    \/ \E p \in Procs : LoadInsert(p)
    \/ \E p \in Procs : LoadDbError(p)
    \/ \E p \in Procs : LoadCommit(p)

Spec == Init /\ [][Next]_vars

\* ------------------------------------------- load_data_bulk called directly
\* Stores the pipeline can hold: identifiers and dates present, no identifier twice.
\* No constraint reads the coordinate: stored rows and batches carry one value.
StoredRows == [id : Ids, date : Dates, latitude : Latitudes]
Stores == {SetToBag(rows) : rows \in
              {t \in SUBSET StoredRows : \A a, b \in t : a.id = b.id => a = b}}
CleanRows == [id : Ids \cup {NULL}, date : Dates \cup {NULL}, latitude : Latitudes]
Batches == UNION {[1..n -> CleanRows] : n \in 0..MaxBatch}

InitLoad ==
    /\ DimInit
    /\ crime_records \in Stores
    /\ source = {}
    /\ \E df \in Batches :
         run = [p \in Procs |-> IF p = Runner THEN [Idle EXCEPT !.pc = "load", !.clean_df = df]
                                         ELSE Idle]

NextLoad ==
    \/ \E p \in Procs : LoadBegin(p)
    \/ \E p \in Procs : LoadInsert(p)
    \/ \E p \in Procs : LoadDbError(p)
    \/ \E p \in Procs : LoadCommit(p)

SpecLoad == InitLoad /\ [][NextLoad]_vars

\* ------------------------------------- runs one after another, fixed source
\* One process runs the orchestrators one after another against a remote
\* dataset that does not change.  The dataset holds up to one record more than
\* the backfill cap admits.
SeqIds == 1..(BackfillLimit + 1)
SeqSources ==
    {{[id |-> i, date |-> f[i].date, latitude |-> f[i].latitude] : i \in {j \in SeqIds : f[j].there}} :
        f \in [SeqIds -> [there : BOOLEAN, date : Dates, latitude : Latitudes \cup {ABSENT}]]}

InitSeq ==
    /\ DimInit
    /\ crime_records = EmptyBag
    /\ source \in SeqSources
    /\ run = [p \in Procs |-> Idle]

NextSeq ==
    \/ \E mode \in {"daily", "backfill"} : Start(Runner, mode)
    \/ DailyCheckpoint(Runner)
    \/ BackfillCheck(Runner)
    \/ Fetch(Runner)
    \/ FetchError(Runner)
    \/ Clean(Runner)
    \/ CleanError(Runner)
    \/ LoadBegin(Runner)
    \/ LoadInsert(Runner)
    \/ LoadDbError(Runner)
    \/ LoadCommit(Runner)

SpecSeq == InitSeq /\ [][NextSeq]_vars

\* ------------------------------------------ one call on any store and source
\* One call of run_daily.main, of run_backfill.main or of load_data_bulk, on
\* any store and any remote dataset.
CallSources ==
    {{[id |-> i, date |-> f[i].date, latitude |-> f[i].latitude] : i \in {j \in Ids : f[j].there}} :
        f \in [Ids -> [there : BOOLEAN, date : Dates, latitude : Latitudes \cup {ABSENT}]]}
InitMain ==
    /\ DimInit
    /\ crime_records \in Stores
    /\ source \in CallSources
    /\ \E mode \in {"daily", "backfill"} :
         run = [p \in Procs |-> IF p = Runner THEN [Idle EXCEPT !.mode = mode, !.pc = "checkpoint"]
                                              ELSE Idle]

InitCall == InitLoad \/ InitMain

NextCall ==
    \/ DailyCheckpoint(Runner)
    \/ BackfillCheck(Runner)
    \/ Fetch(Runner)
    \/ FetchError(Runner)
    \/ Clean(Runner)
    \/ CleanError(Runner)
    \/ LoadBegin(Runner)
    \/ LoadInsert(Runner)
    \/ LoadDbError(Runner)
    \/ LoadCommit(Runner)

SpecCall == InitCall /\ [][NextCall]_vars

\* ------------------------------------------------ clean_data on any batch
\* clean_data called on any raw batch: each value parses, does not parse, or
\* its key is missing from the row.
RawCrimes == [id : Ids \cup {BAD, ABSENT}, date : Dates \cup {BAD, ABSENT},
            latitude : Latitudes \cup {BAD, ABSENT}]
RawBatches == UNION {[1..n -> RawCrimes] : n \in 0..MaxBatch}

InitClean ==
    /\ DimInit
    /\ crime_records = EmptyBag
    /\ source = {}
    /\ \E df \in RawBatches :
         run = [p \in Procs |-> IF p = Runner THEN [Idle EXCEPT !.pc = "clean", !.raw_df = df]
                                              ELSE Idle]

NextClean ==
    \/ Clean(Runner)
    \/ CleanError(Runner)

SpecClean == InitClean /\ [][NextClean]_vars

\* ------------------------------------------- the dimension reconciliation
\* Reconciliation runs one after another, each fetch returning any frame.
InitDim == FactInit /\ DimInit

NextDim ==
    \/ DimStart
    \/ \E results \in Frames : fetch_and_load_dimension(results)
    \/ DimFetchError
    \/ DimCommit

SpecDim == InitDim /\ [][NextDim]_vars

\* Reconciliation runs one after another against remote datasets that do not
\* change.  The tables start empty, or as an earlier run loaded them.
LoadedBefore == [i \in 1..NumTables |->
    SeqToBag(standardize(tablename(Tables[i]),
                         <<[pk |-> <<"1">>, val |-> "b"]>>))]

InitRerun ==
    /\ FactInit
    /\ dim_tables \in {[i \in 1..NumTables |-> EmptyBag], LoadedBefore}
    /\ session_tables = dim_tables
    /\ dim_source \in [1..NumTables -> Frames]
    /\ dim = DimIdle

NextRerun ==
    \/ DimStart
    \/ DimProcessRemote
    \/ DimFetchError
    \/ DimCommit

SpecRerun == InitRerun /\ [][NextRerun]_vars

\* ------------------------------------------------- key normalisation alone
\* Reconciliation runs against datasets of one row, its key any text of
\* digits and dots.
KeyChars == {"0", "1", "."}
KeyTexts == UNION {[1..n -> KeyChars] : n \in 0..MaxKeyLen}

InitKey ==
    /\ FactInit
    /\ dim_tables = [i \in 1..NumTables |-> EmptyBag]
    /\ session_tables = dim_tables
    /\ \E k \in KeyTexts :
         dim_source = [i \in 1..NumTables |-> <<[key |-> k, val |-> "a", the_geom |-> "g"]>>]
    /\ dim = DimIdle

SpecKey == InitKey /\ [][NextRerun]_vars

\* ------------------------------------------------------------ fact claims
StepOf(p) == run'[p] /= run[p]
LoadRaises(p) == run[p].pc = "insert" /\ run'[p].pc = "failed"
LoadReturns(p) == run[p].pc = "insert" /\ run'[p].pc = "done"
UniqueIds(table) ==
    \A a \in BagToSet(table) :
        /\ CopiesIn(a, table) = 1
        /\ \A b \in BagToSet(table) : a.id = b.id => a = b
\* some row of the batch has an identifier already stored, or repeated in the batch
HasDuplicate(df, table) ==
    \/ \E i \in DOMAIN df : df[i].id /= NULL /\ df[i].id \in IdsOf(table)
    \/ \E i, j \in DOMAIN df : i < j /\ df[i].id /= NULL /\ df[i].id = df[j].id

\* C1: load_data_bulk is atomic.  The step on which it raises leaves the fact
\* table exactly as it was; the step on which it returns after inserting has
\* added every row of the batch (as many rows as the batch has, on top of all
\* the rows stored before) and happens only for a batch with no identifier
\* already stored or repeated; every other step of the call leaves the table
\* alone.
C1_Step(p) ==
    /\ LoadRaises(p) => crime_records' = crime_records
    /\ LoadReturns(p) =>
         /\ BagCardinality(crime_records') =
                BagCardinality(crime_records) + Len(run[p].clean_df)
         /\ crime_records \sqsubseteq crime_records'
         /\ \A i \in DOMAIN run[p].clean_df :
                run[p].clean_df[i].id /= NULL => BagIn(run[p].clean_df[i], crime_records')
         /\ ~ HasDuplicate(run[p].clean_df, crime_records)
    /\ (run[p].pc \in {"load", "insert"} /\ StepOf(p) /\ ~ LoadReturns(p)) =>
         crime_records' = crime_records
C1_LoadAtomic == [][\A p \in Procs : C1_Step(p)]_vars

\* A batch failed on a constraint after its first row had been written to the
\* session, and the table still holds rows.
C1_Witness ==
    /\ run[1].pc = "failed" /\ run[1].err = "IntegrityError"
    /\ run[1].idx >= 1
    /\ crime_records /= EmptyBag

NoCheckpoint(table) == \A r \in BagToSet(table) : r.date = NULL
DailyResolves(p) == run[p].mode = "daily" /\ run[p].pc = "checkpoint" /\ StepOf(p)
BackfillResolves(p) == run[p].mode = "backfill" /\ run[p].pc = "checkpoint" /\ StepOf(p)
NothingDone(r) == r.nfetch = 0 /\ r.fetch = NoFetch /\ ~ r.wrote /\ r.pending = EmptyBag

\* C2: a daily run that resolves its checkpoint on a fact table with no
\* timestamp fails there with the configuration error (ValueError), having
\* issued no fetch and written nothing, and the store is unchanged; a run that
\* ended in that error never fetched or wrote.
C2_Step(p) ==
    (DailyResolves(p) /\ NoCheckpoint(crime_records)) =>
        /\ run'[p].pc = "failed" /\ run'[p].err = "ValueError"
        /\ NothingDone(run'[p])
        /\ crime_records' = crime_records
C2_DailyNeedsCheckpoint ==
    /\ [][\A p \in Procs : C2_Step(p)]_vars
    /\ [](\A p \in Procs : run[p].err = "ValueError" =>
              run[p].pc = "failed" /\ NothingDone(run[p]))

C2_Witness ==
    \E p \in Procs : /\ run[p].mode = "daily" /\ run[p].err = "ValueError"
                     /\ crime_records = EmptyBag /\ source /= {}

\* C3: a backfill run that checks a fact table holding rows aborts there with
\* the conflict error (RuntimeError), having issued no fetch and written
\* nothing, and leaves the fact table unchanged.
C3_Step(p) ==
    (BackfillResolves(p) /\ crime_records /= EmptyBag) =>
        /\ run'[p].pc = "failed" /\ run'[p].err = "RuntimeError"
        /\ NothingDone(run'[p])
        /\ crime_records' = crime_records
C3_BackfillNeedsEmpty ==
    /\ [][\A p \in Procs : C3_Step(p)]_vars
    /\ [](\A p \in Procs : run[p].err = "RuntimeError" =>
              run[p].pc = "failed" /\ NothingDone(run[p]))

C3_Witness ==
    \E p \in Procs : /\ run[p].mode = "backfill" /\ run[p].err = "RuntimeError"
                     /\ crime_records /= EmptyBag

IsMaxDate(T, table) ==
    /\ \E r \in BagToSet(table) : r.date = T
    /\ \A r \in BagToSet(table) : r.date <= T
Fetches(p) == run'[p].nfetch = run[p].nfetch + 1

\* C4: a daily run that resolves its checkpoint on a fact table whose maximum
\* timestamp is T takes T + 1 second as its lower bound, and the one fetch it
\* issues carries exactly that bound: every row returned has a timestamp of at
\* least T + 1 s, and a remote row at or after T + 1 s is left out only when
\* the row cap is reached.
C4_Step(p) ==
    /\ \A T \in Dates :
         (DailyResolves(p) /\ IsMaxDate(T, crime_records)) =>
             /\ run'[p].pc = "fetch"
             /\ run'[p].last_date = T
             /\ run'[p].start_date = T + OneSecond
    /\ (run[p].mode = "daily" /\ Fetches(p)) =>
         /\ run[p].nfetch = 0
         /\ run'[p].fetch.start_date = run[p].last_date + OneSecond
         /\ \A i \in DOMAIN run'[p].raw_df :
                run'[p].raw_df[i].date >= run[p].last_date + OneSecond
         /\ run'[p].pc /= "failed" =>
                Len(run'[p].raw_df) =
                    Min2(run'[p].fetch.limit,
                         Cardinality({r \in source : r.date >= run[p].last_date + OneSecond}))
C4_DailyLowerBound == [][\A p \in Procs : C4_Step(p)]_vars

\* A daily run fetched from T + 1 = 1 and got the row stamped exactly T + 1.
C4_Witness ==
    \E p \in Procs :
        /\ run[p].mode = "daily" /\ run[p].pc = "clean"
        /\ run[p].last_date = 0 /\ run[p].fetch.start_date = 1
        /\ run[p].raw_df[1].date = 1

\* C10: under every interleaving of the runs, the fact table never holds an
\* identifier twice; it changes only by the commit of one run, which adds that
\* run's whole batch, none of whose identifiers was stored; a run that fails
\* adds nothing.
C10_Step ==
    /\ crime_records' /= crime_records =>
         \E p \in Procs :
             /\ LoadReturns(p)
             /\ crime_records' = crime_records (+) SetToBag(Range(run[p].clean_df))
             /\ BagCardinality(crime_records') =
                    BagCardinality(crime_records) + Len(run[p].clean_df)
             /\ IdsOf(crime_records) \cap {run[p].clean_df[i].id : i \in DOMAIN run[p].clean_df} = {}
    /\ \A p \in Procs : run'[p].pc = "failed" /\ StepOf(p) => crime_records' = crime_records
C10_RaceKeepsTableSound ==
    /\ [](UniqueIds(crime_records))
    /\ [][C10_Step]_vars

\* Two daily runs read the same checkpoint; one committed its batch and the
\* other was rejected on the identifiers the first had stored.
C10_Witness ==
    \E p, q \in Procs :
        /\ p /= q
        /\ run[p].mode = "daily" /\ run[q].mode = "daily"
        /\ run[p].last_date = run[q].last_date
        /\ run[p].fetch = run[q].fetch /\ run[p].nfetch = 1
        /\ run[p].pc = "done" /\ run[p].wrote
        /\ run[q].pc = "failed" /\ run[q].err = "IntegrityError"

\* ------------------------------------------------------- dimension claims
\* C5: reconciliation is atomic across the run.  While a run is under way and
\* after a run that failed, every dimension table holds exactly what it held
\* when the run began, and a failed run leaves nothing behind in its session;
\* the committed tables change only on the commit that ends a run which
\* processed every table, and then all at once to what the session holds.
C5_Step ==
    dim_tables' /= dim_tables =>
        /\ dim.status = "running" /\ dim.pos = NumTables + 1
        /\ dim'.status = "success"
        /\ dim_tables' = session_tables
C5_RunAtomic ==
    /\ [](dim.status \in {"running", "failed"} => dim_tables = dim.before)
    /\ [](dim.status = "failed" => session_tables = dim_tables)
    /\ [][C5_Step]_vars

\* A run failed on a later table after an earlier table, which held rows, had
\* been deleted and reinserted in its session.
C5_Witness ==
    /\ dim.status = "failed" /\ dim.pos > 1
    /\ \E t \in dim.touched : t < dim.pos /\ dim_tables[t] /= EmptyBag

\* the deduplicated, normalized projection of what a remote dataset returns
Projection(model, results) ==
    SeqToBag(standardize(tablename(model), drop_duplicates(rename_and_filter(results))))

\* C6: after every successful reconciliation run each dimension table holds
\* exactly the deduplicated, normalized projection of what the remote dataset
\* returned in that run, also when it returned no rows.
C6_ExactProjection ==
    dim.status = "success" =>
        \A t \in 1..NumTables : dim_tables[t] = Projection(Tables[t], dim_source[t])

\* C7: the primary keys of the records handed to the insert are pairwise
\* distinct, as stored (after key normalisation).
C7_InsertedKeysDistinct ==
    \A i, j \in DOMAIN dim.frame.records :
        i < j => dim.frame.records[i].pk /= dim.frame.records[j].pk

FirstPos(df, k) == CHOOSE i \in DOMAIN df : df[i].pk = k /\ \A j \in 1..(i - 1) : df[j].pk /= k
KeysOf(df) == {df[i].pk : i \in DOMAIN df}

\* C8: deduplication keeps the first occurrence.  Of every primary key in the
\* fetched rows exactly one row survives, the one fetched first with that key;
\* nothing else survives; the survivors stay in fetch order.
C8_FirstOccurrenceWins ==
    LET f == dim.frame.fetched
        d == dim.frame.deduped
    IN  /\ KeysOf(d) = KeysOf(f)
        /\ \A k \in KeysOf(f) :
               /\ Cardinality({i \in DOMAIN d : d[i].pk = k}) = 1
               /\ \A i \in DOMAIN d : d[i].pk = k => d[i] = f[FirstPos(f, k)]
        /\ \A i, j \in DOMAIN d : i < j => FirstPos(f, d[i].pk) < FirstPos(f, d[j].pk)

\* Two fetched rows shared a key with different descriptions; the first survived.
C8_Witness ==
    LET f == dim.frame.fetched
    IN  /\ Len(f) >= 2
        /\ f[1].pk = f[2].pk /\ f[1].val /= f[2].val
        /\ dim.frame.deduped = <<f[1]>>

\* C9: reconciliation is idempotent.  With the remote datasets unchanged, a run
\* that follows a successful run ends with every dimension table holding
\* exactly what it held after that run.
C9_Idempotent ==
    (dim.prev_ok /\ dim.status \in {"success", "failed"}) => dim_tables = dim.before

\* A second run committed after deleting and reinserting rows.
C9_Witness ==
    /\ dim.prev_ok /\ dim.status = "success"
    /\ \E t \in dim.touched : dim_tables[t] /= EmptyBag /\ Len(dim_source[t]) = MaxDimRows

\* ------------------------------------------------ end-to-end fact claims
MaxDateOf(df) == CHOOSE m \in {df[i].date : i \in DOMAIN df} : \A i \in DOMAIN df : df[i].date <= m
AfterFetch(p) == run[p].pc \in {"clean", "load", "insert"}
Fails(p) == run[p].pc /= "failed" /\ run'[p].pc = "failed"

\* C11: a backfill on an empty fact table whose fetch returned a non-empty
\* batch B, rows without a coordinate included, goes on to commit: short of a
\* failure of the store it does not fail after the fetch, and its commit takes
\* the table from empty to exactly |B| rows whose maximum timestamp is the
\* maximum timestamp of B; a daily checkpoint resolved on a table that holds
\* rows returns the maximum stored timestamp plus one second.
C11_Step(p) ==
    /\ (run[p].mode = "backfill" /\ AfterFetch(p) /\ Fails(p)) =>
           run'[p].err = "OperationalError"
    /\ (run[p].mode = "backfill" /\ LoadReturns(p)) =>
           /\ crime_records = EmptyBag
           /\ BagCardinality(crime_records') = Len(run[p].raw_df)
           /\ get_last_crime_date(crime_records') = MaxDateOf(run[p].raw_df)
    /\ (DailyResolves(p) /\ crime_records /= EmptyBag) =>
           /\ run'[p].pc = "fetch"
           /\ run'[p].start_date = get_last_crime_date(crime_records) + OneSecond
C11_BackfillThenCheckpoint == [][\A p \in Procs : C11_Step(p)]_vars

\* C12: errors of any stage propagate.  A run that fails in the fetch ends with
\* the fetch's error, one that fails in the coercion ends with the coercion's
\* error (KeyError), one that fails in the load ends with the store's error;
\* the stages after the failing one were not entered (no frame cleaned, no
\* write opened, the table unchanged), and a failed run takes no further step.
C12_Step(p) ==
    /\ (run[p].pc = "fetch" /\ Fails(p)) =>
           /\ run'[p].err = "TransportError"
           /\ ~ run'[p].wrote /\ run'[p].idx = 0
    /\ (run[p].pc = "clean" /\ Fails(p)) =>
           /\ run'[p].err = "KeyError"
           /\ ~ run'[p].wrote /\ run'[p].idx = 0
    /\ (run[p].pc \in {"load", "insert"} /\ Fails(p)) =>
           run'[p].err \in {"IntegrityError", "OperationalError"}
    /\ Fails(p) => crime_records' = crime_records
    /\ (run[p].pc = "failed" /\ StepOf(p)) => run'[p].pc = "checkpoint"
C12_ErrorsPropagate == [][\A p \in Procs : C12_Step(p)]_vars

\* C13: empty results are no-ops.  A run whose fetch returns zero rows ends on
\* that step without error, having opened no write, with the fact table
\* unchanged; load_data_bulk called with an empty batch returns on its first
\* step without error and without writing.
C13_Step(p) ==
    /\ (Fetches(p) /\ ~ Fails(p) /\ Len(run'[p].raw_df) = 0) =>
           /\ run'[p].pc = "done" /\ run'[p].err = "none"
           /\ ~ run'[p].wrote /\ run'[p].idx = 0 /\ run'[p].pending = EmptyBag
           /\ crime_records' = crime_records
    /\ (run[p].pc = "load" /\ StepOf(p) /\ Len(run[p].clean_df) = 0) =>
           /\ run'[p].pc = "done" /\ run'[p].err = "none"
           /\ ~ run'[p].wrote /\ run'[p].idx = 0 /\ run'[p].pending = EmptyBag
           /\ crime_records' = crime_records
C13_EmptyIsNoOp ==
    /\ [][\A p \in Procs : C13_Step(p)]_vars
    /\ [](\A p \in Procs : (run[p].pc \in {"clean", "insert"} => run[p].raw_df /= <<>> \/ run[p].clean_df /= <<>>))

\* A daily run on a table holding rows fetched zero rows and returned.
C13_Witness ==
    \E p \in Procs :
        /\ run[p].mode = "daily" /\ run[p].pc = "done"
        /\ run[p].nfetch = 1 /\ ~ run[p].wrote /\ run[p].idx = 0
        /\ crime_records /= EmptyBag /\ source /= {}

\* C14: coercion degrades instead of failing.  clean_data raises on no raw
\* batch, and in the frame it returns every field whose raw value does not
\* parse or whose key the row lacks is null, every other field keeps its value.
C14_CoercionDegrades ==
    \A p \in Procs :
        /\ run[p].err \notin {"KeyError", "UnboundLocalError"}
        /\ run[p].pc = "load" =>
               /\ Len(run[p].clean_df) = Len(run[p].raw_df)
               /\ \A i \in DOMAIN run[p].raw_df : \A c \in FactCols :
                      run[p].clean_df[i][c] =
                          IF run[p].raw_df[i][c] \in {BAD, ABSENT} THEN NULL
                                                                 ELSE run[p].raw_df[i][c]

\* the coerced record of a raw row: each field its parsed value, or null
Coerced(r, c) == (c.id = r.id \/ c.id = NULL) /\ (c.date = r.date \/ c.date = NULL)
                     /\ (c.latitude = r.latitude \/ c.latitude = NULL)

\* C15: coercion drops no rows.  The frame clean_data returns has one record
\* per row of the raw batch, the i-th record coerced from the i-th row, also
\* for rows whose identifier or timestamp does not parse; the 'all data
\* filtered out' branch is taken only for an empty fetched batch.
C15_NoRowDropped ==
    /\ [](\A p \in Procs : run[p].pc = "load" /\ run[p].raw_df /= <<>> =>
             /\ Len(run[p].clean_df) = Len(run[p].raw_df)
             /\ \A i \in DOMAIN run[p].raw_df : Coerced(run[p].raw_df[i], run[p].clean_df[i]))
    /\ [][\A p \in Procs : (run[p].pc = "clean" /\ StepOf(p) /\ ~ Fails(p)) =>
             /\ Len(run'[p].clean_df) = Len(run[p].raw_df)
             /\ (run'[p].pc = "done" => Len(run[p].raw_df) = 0)]_vars

\* A two-row batch whose first row has an identifier that does not parse and
\* whose second has a timestamp that does not parse came back as two records.
C15_Witness ==
    \E p \in Procs :
        /\ run[p].pc = "load" /\ Len(run[p].raw_df) = 2 /\ Len(run[p].clean_df) = 2
        /\ run[p].raw_df[1].id = BAD /\ run[p].clean_df[1].id = NULL
        /\ run[p].raw_df[2].date = BAD /\ run[p].clean_df[2].date = NULL
        /\ run[p].clean_df[2].id = run[p].raw_df[2].id

HasNullId(df) == \E i \in DOMAIN df : df[i].id = NULL

\* C16: a batch holding a record with a null identifier is never inserted, not
\* even in part.  No step of the load of such a batch changes the fact table,
\* and its load does not return: it fails.
C16_Step(p) ==
    (run[p].pc \in {"load", "insert"} /\ HasNullId(run[p].clean_df) /\ StepOf(p)) =>
        /\ crime_records' = crime_records
        /\ run'[p].pc /= "done"
C16_NullIdNeverInserted == [][\A p \in Procs : C16_Step(p)]_vars

\* the text before the first '.', and a text left-padded with zeros to a width
BeforeFirstDot(text) ==
    LET n == CHOOSE m \in 0..Len(text) :
                 /\ \A i \in 1..m : text[i] /= "."
                 /\ m < Len(text) => text[m + 1] = "."
    IN  SubSeq(text, 1, n)
LeftPadded(text, width) ==
    LET n == IF Len(text) >= width THEN 0 ELSE width - Len(text)
    IN  [i \in 1..(n + Len(text)) |-> IF i <= n THEN "0" ELSE text[i - n]]
NormalForm(model, key) ==
    IF model = "District" THEN LeftPadded(BeforeFirstDot(key), 3) ELSE BeforeFirstDot(key)

Stage(pc) ==
    CASE pc = "idle" -> 0 [] pc = "checkpoint" -> 1 [] pc = "fetch" -> 2 [] pc = "clean" -> 3
      [] pc = "load" -> 4 [] pc = "insert" -> 5 [] OTHER -> 6

\* C18: a backfill on an empty fact table issues exactly one fetch, from the
\* historical start with the backfill's row cap, and loads at most once; no
\* run of either orchestrator loops or retries: a run issues at most one
\* fetch, every step of it moves to a later stage or inserts the next row of
\* the one batch, and a finished run does nothing more.
C18_Step(p) ==
    /\ (run[p].mode = "backfill" /\ Fetches(p)) =>
           /\ run[p].nfetch = 0
           /\ run'[p].fetch = [start_date |-> HistoricalStart, limit |-> BackfillLimit]
    /\ (StepOf(p) /\ run'[p].pc /= "checkpoint") =>
           \/ Stage(run'[p].pc) > Stage(run[p].pc)
           \/ /\ run[p].pc = "insert" /\ run'[p].pc = "insert"
              /\ run'[p].idx = run[p].idx + 1
              /\ run'[p].clean_df = run[p].clean_df
    /\ (StepOf(p) /\ run'[p].pc = "checkpoint") => Finished(p)
C18_OneFetchNoRetry ==
    /\ [][\A p \in Procs : C18_Step(p)]_vars
    /\ [](\A p \in Procs :
            /\ run[p].nfetch <= 1
            /\ (run[p].mode = "backfill" /\ Stage(run[p].pc) > Stage("fetch")
                    /\ run[p].err /= "RuntimeError") =>
                   /\ run[p].nfetch = 1
                   /\ run[p].fetch = [start_date |-> HistoricalStart, limit |-> BackfillLimit])

\* A backfill fetched once, from the historical start, as many rows as its
\* cap admits, and committed them.
C18_Witness ==
    \E p \in Procs :
        /\ run[p].mode = "backfill" /\ run[p].pc = "done" /\ run[p].wrote
        /\ run[p].nfetch = 1 /\ run[p].fetch.limit = BackfillLimit
        /\ run[p].idx = BackfillLimit
        /\ BagCardinality(crime_records) = BackfillLimit

\* C19: no source record is skipped by the checkpoint scheme.  With the remote
\* dataset unchanged, every record of it whose timestamp is at or before the
\* maximum stored timestamp is in the fact table.
C19_NoRecordSkipped ==
    LET T == get_last_crime_date(crime_records)
    IN  T /= NULL =>
            \A r \in source : r.date <= T => r.id \in IdsOf(crime_records)

BackfillMayRun(table) == is_database_empty(table)
DailyMayRun(table) == get_last_crime_date(table) /= NULL

\* C20: the two mode guards are complementary.  On every fact table the runs
\* reach from an empty one, exactly one of the backfill precondition and the
\* daily precondition holds; a backfill that checks the table goes on exactly
\* when the table is empty, a daily run exactly when it is not.
C20_Step(p) ==
    /\ BackfillResolves(p) => (run'[p].pc = "fetch" <=> crime_records = EmptyBag)
    /\ DailyResolves(p) => (run'[p].pc = "fetch" <=> crime_records /= EmptyBag)
C20_GuardsComplementary ==
    /\ [](BackfillMayRun(crime_records) <=> ~ DailyMayRun(crime_records))
    /\ [][\A p \in Procs : C20_Step(p)]_vars

\* On a table holding rows a backfill was refused while a daily run had
\* resolved its checkpoint.
C20_Witness ==
    \E p, q \in Procs :
        /\ crime_records /= EmptyBag
        /\ run[p].mode = "backfill" /\ run[p].pc = "failed" /\ run[p].err = "RuntimeError"
        /\ run[q].mode = "daily" /\ run[q].pc = "fetch" /\ run[q].last_date /= NULL

\* C21: the checkpoint is monotone and the fact table is append-only.  Every
\* step keeps every stored row as it is, so the maximum stored timestamp never
\* decreases; the table changes only on the commit that ends a run's load; a
\* step on which a run fails leaves the table as it was; and once a daily run
\* has failed after resolving its checkpoint, the lower bound a daily run
\* would compute from the table is the one the failed run computed.
C21_Step ==
    /\ crime_records \sqsubseteq crime_records'
    /\ LET before == get_last_crime_date(crime_records)
           after == get_last_crime_date(crime_records')
       IN  before /= NULL => (after /= NULL /\ after >= before)
    /\ crime_records' /= crime_records => \E p \in Procs : LoadReturns(p)
    /\ \A p \in Procs : Fails(p) => crime_records' = crime_records
C21_AppendOnlyMonotone ==
    /\ [][C21_Step]_vars
    /\ [](\A p \in Procs :
            (run[p].mode = "daily" /\ run[p].pc = "failed" /\ run[p].err /= "ValueError") =>
                /\ get_last_crime_date(crime_records) = run[p].last_date
                /\ start_after(get_last_crime_date(crime_records)) = run[p].start_date)

\* A daily run failed in the store after writing a row to its session; the
\* table still holds the rows it held and the checkpoint is where it was.
C21_Witness ==
    \E p \in Procs :
        /\ run[p].mode = "daily" /\ run[p].pc = "failed" /\ run[p].err = "OperationalError"
        /\ run[p].wrote /\ run[p].idx >= 1
        /\ crime_records /= EmptyBag
        /\ run[p].start_date = get_last_crime_date(crime_records) + OneSecond

====
